---- MODULE Spec2Model ----
(***************************************************************************)
(* A model of the pychannels library (src/channels): wait groups, the      *)
(* channel family (unicast, broadcast, default, buffered), the close       *)
(* life cycle and select, run by cooperative tasks on one event loop.      *)
(*                                                                         *)
(* One action is one uninterrupted run of a coroutine between two          *)
(* suspension points: a call up to its first await or its return, the      *)
(* resumption of a parked task up to its next await or its return, or a    *)
(* cancellation by the host scheduler.                                     *)
(***************************************************************************)
EXTENDS Integers, Sequences, FiniteSets, TLC

\* ------------------------------------------------------------------ bounds
NTasks == 2      \* tasks sharing the event loop
MaxOps == 5      \* operations called (and cancellations) in one behaviour
MaxMsg == 3      \* messages offered to send/send_nowait in one behaviour
MaxSize == 2     \* largest positive maxsize of a BufferedChannel
NSelChans == 3   \* channels of the select scenarios
MaxSelOps == 4   \* operations called in one behaviour of the select scenarios

Tasks == 1..NTasks
Main == 0        \* the caller of an operation that never suspends

\* ------------------------------------------------------- program constants
NO_MSG == 0                    \* utils.NO_MSG, the empty-slot sentinel
None == 0 - 1                  \* maxsize=None: no capacity limit
InitMsg == MaxMsg + 1          \* the default_msg given to DefaultChannel(...)

VARIABLES
    chans,     \* channel id -> the channel object's fields
    task,      \* task -> where the task's coroutine stands
    nextMsg,   \* next fresh message to be offered
    budget,    \* operations the tasks may still call
    event,     \* the step just taken: operation, caller, outcome
    sent,      \* channel id -> messages committed by _send, in commit order
    received   \* channel id -> messages returned by receives, in order

vars == <<chans, task, nextMsg, budget, event, sent, received>>

\* ---------------------------------------------------------------- storage
\* storage.py: QUEUE = (deque, append, popleft), STACK = (list, append, pop)
Storage_put(storage, store, elt) == Append(store, elt)

Stack_get(storage, store) ==
    [store |-> SubSeq(store, 1, Len(store) - 1), elt |-> store[Len(store)]]

Storage_get(storage, store) ==
    IF storage = "QUEUE"
    THEN [store |-> Tail(store), elt |-> Head(store)]
    ELSE [store |-> SubSeq(store, 1, Len(store) - 1), elt |-> store[Len(store)]]

\* ------------------------------------------------------------- wait group
\* A waiter is a Future; in the queue it is [task, done]: done is TRUE once
\* the future is cancelled (a future completed by wakeup/abort has left the
\* queue). The awaiting task holds the future's state in task[t].fut.
WaitGroup_empty(waiters) == waiters = <<>>

WaitGroup_wait(waiters, t) == Append(waiters, [task |-> t, done |-> FALSE])

RECURSIVE WaitGroup_wakeup_next(_)
WakeupNext_NoSkip(waiters) ==
    IF waiters = <<>> THEN [waiters |-> <<>>, woken |-> {}]
    ELSE [waiters |-> Tail(waiters),
          woken |-> IF Head(waiters).done THEN {} ELSE {Head(waiters).task}]

WaitGroup_wakeup_next(waiters) ==
    IF waiters = <<>> THEN [waiters |-> <<>>, woken |-> {}]
    ELSE IF ~Head(waiters).done
         THEN [waiters |-> Tail(waiters), woken |-> {Head(waiters).task}]
         ELSE WaitGroup_wakeup_next(Tail(waiters))

Live(waiters) == {waiters[i].task : i \in {j \in DOMAIN waiters : ~waiters[j].done}}

WaitGroup_wakeup_all(waiters) == [waiters |-> <<>>, woken |-> Live(waiters)]

Abort_HeadOnly(waiters) == WaitGroup_wakeup_next(waiters)

WaitGroup_abort(waiters) == [waiters |-> <<>>, woken |-> Live(waiters)]

\* The waiter of task t, still pending, is cancelled: it stays in the queue.
CancelWaiter(waiters, t) ==
    [i \in DOMAIN waiters |->
        IF waiters[i].task = t THEN [waiters[i] EXCEPT !.done = TRUE]
        ELSE waiters[i]]

\* ---------------------------------------------------------------- channels
\* The outcome of a piece of code run on channel object s:
\*   ch  the object afterwards, res/exc the tasks whose waiter got
\*   set_result / set_exception(ChannelClosed), out what was returned or raised.
Eff(s, res, exc, out, msg) ==
    [ch |-> s, res |-> res, exc |-> exc, out |-> out, msg |-> msg]

\* BufferedChannel.empty / size / full
Buffered_empty(s) == Len(s.messages) = 0
Buffered_size(s) == Len(s.messages)
Full_OffByOne(s) == s.maxsize # None /\ Buffered_size(s) > s.maxsize

Buffered_full(s) == s.maxsize # None /\ Buffered_size(s) >= s.maxsize

\* cls._ready_to_send before the ClosableChannel wrapper
ReadyToSend_Always(s) == TRUE

Inner_ready_to_send(s) ==
    CASE s.kind \in {"unicast", "broadcast"} ->
            s.message = NO_MSG /\ ~WaitGroup_empty(s.receivers)
      [] s.kind = "default" -> TRUE
      [] s.kind = "buffered" ->
            IF s.maxsize = 0
            THEN Buffered_empty(s) /\ ~WaitGroup_empty(s.receivers)
            ELSE ~Buffered_full(s)

\* cls._ready_to_receive before the ClosableChannel wrapper
Inner_ready_to_receive(s) ==
    IF s.kind = "buffered" THEN ~Buffered_empty(s) ELSE s.message # NO_MSG

\* Python bool as the probes return it, or the exception they raise.
PyBool(b) == IF b THEN "True" ELSE "False"

\* ClosableChannel.__init_subclass__._ready_to_send: the wrappers of nested
\* subclasses nest, each repeating the same test on the same state.
ReadyToSend_NoClosedTest(s) == PyBool(Inner_ready_to_send(s))

Closable_ready_to_send(s) ==
    IF s.closed THEN "ChannelClosed" ELSE PyBool(Inner_ready_to_send(s))

\* ClosableChannel.__init_subclass__._ready_to_receive
Closable_ready_to_receive(s) ==
    LET ready == Inner_ready_to_receive(s)
    IN IF ~ready /\ s.closed THEN "ChannelClosed" ELSE PyBool(ready)

\* cls._send: _XcastChannel._send, DefaultChannel._send, BufferedChannel._send
Channel_send(s, msg) ==
    CASE s.kind \in {"unicast", "broadcast"} ->
            IF s.message # NO_MSG
            THEN Eff(s, {}, {}, "AssertionError", NO_MSG)
            ELSE LET w == IF s.kind = "unicast"
                          THEN WaitGroup_wakeup_next(s.receivers)
                          ELSE WaitGroup_wakeup_all(s.receivers)
                 IN Eff([s EXCEPT !.message = msg, !.receivers = w.waiters],
                        w.woken, {}, "ok", msg)
      [] s.kind = "default" ->
            LET w == WaitGroup_wakeup_all(s.receivers)
            IN Eff([s EXCEPT !.message = msg, !.receivers = w.waiters],
                   w.woken, {}, "ok", msg)
      [] s.kind = "buffered" ->
            LET w == WaitGroup_wakeup_next(s.receivers)
            IN Eff([s EXCEPT !.messages = Storage_put(s.storage, @, msg),
                             !.receivers = w.waiters],
                   w.woken, {}, "ok", msg)

\* cls._receive before the BaseClosableChannel wrapper: _XcastChannel._receive
\* (DefaultChannel inherits it) and BufferedChannel._receive.
Receive_NoWakeup(s) ==
    IF s.kind = "buffered"
    THEN IF s.messages = <<>>
         THEN Eff(s, {}, {}, "IndexError", NO_MSG)
         ELSE LET g == Storage_get(s.storage, s.messages)
              IN Eff([s EXCEPT !.messages = g.store], {}, {}, "msg", g.elt)
    ELSE IF s.message = NO_MSG
         THEN Eff(s, {}, {}, "AssertionError", NO_MSG)
         ELSE Eff([s EXCEPT !.message = NO_MSG], {}, {}, "msg", s.message)

Receive_KeepSlot(s) ==
    IF s.kind = "buffered"
    THEN IF s.messages = <<>>
         THEN Eff(s, {}, {}, "IndexError", NO_MSG)
         ELSE LET g == Storage_get(s.storage, s.messages)
                  w == WaitGroup_wakeup_next(s.senders)
              IN Eff([s EXCEPT !.messages = g.store, !.senders = w.waiters],
                     w.woken, {}, "msg", g.elt)
    ELSE IF s.message = NO_MSG
         THEN Eff(s, {}, {}, "AssertionError", NO_MSG)
         ELSE LET w == WaitGroup_wakeup_next(s.senders)
              IN Eff([s EXCEPT !.senders = w.waiters], w.woken, {}, "msg", s.message)

Inner_receive(s) ==
    IF s.kind = "buffered"
    THEN IF s.messages = <<>>
         THEN Eff(s, {}, {}, "IndexError", NO_MSG)
         ELSE LET g == Storage_get(s.storage, s.messages)
                  w == WaitGroup_wakeup_next(s.senders)
              IN Eff([s EXCEPT !.messages = g.store, !.senders = w.waiters],
                     w.woken, {}, "msg", g.elt)
    ELSE IF s.message = NO_MSG
         THEN Eff(s, {}, {}, "AssertionError", NO_MSG)
         ELSE LET w == WaitGroup_wakeup_next(s.senders)
              IN Eff([s EXCEPT !.message = NO_MSG, !.senders = w.waiters],
                     w.woken, {}, "msg", s.message)

\* BaseClosableChannel.__init_subclass__._receive: the wrapped commit. The
\* test after the commit calls the wrapped probe, which raises when the
\* channel is closed and no longer ready.
Channel_receive(s) ==
    LET e == Inner_receive(s)
    IN IF e.out # "msg" THEN e
       ELSE IF ~e.ch.closed THEN e
       ELSE LET r == Closable_ready_to_receive(e.ch)
            IN CASE r = "ChannelClosed" ->
                        Eff(e.ch, e.res, {}, "ChannelClosed", NO_MSG)
                 [] r = "False" ->
                        LET a == WaitGroup_abort(e.ch.receivers)
                        IN Eff([e.ch EXCEPT !.receivers = a.waiters],
                               e.res, a.woken, "msg", e.msg)
                 [] r = "True" -> e

\* ClosableChannel.close with BaseClosableChannel._close
Channel_close(s) ==
    LET a == WaitGroup_abort(s.senders)
        s1 == [s EXCEPT !.senders = a.waiters]
        r == Closable_ready_to_receive(s1)
    IN CASE r = "ChannelClosed" -> Eff(s1, {}, a.woken, "ChannelClosed", NO_MSG)
         [] r = "False" ->
                LET b == WaitGroup_abort(s1.receivers)
                IN Eff([s1 EXCEPT !.receivers = b.waiters, !.closed = TRUE],
                       {}, a.woken \cup b.woken, "ok", NO_MSG)
         [] r = "True" ->
                Eff([s1 EXCEPT !.closed = TRUE], {}, a.woken, "ok", NO_MSG)

\* DefaultChannel.reset
Default_reset(s) == [s EXCEPT !.message = NO_MSG]

\* ------------------------------------------------------------ construction
NewChannel(kind, maxsize, storage, message) ==
    [kind |-> kind, maxsize |-> maxsize, storage |-> storage,
     message |-> message, messages |-> <<>>,
     senders |-> <<>>, receivers |-> <<>>, closed |-> FALSE]

Constructed ==
    {NewChannel("unicast", None, "QUEUE", NO_MSG),
     NewChannel("broadcast", None, "QUEUE", NO_MSG)}
    \cup {NewChannel("default", None, "QUEUE", m) : m \in {NO_MSG, InitMsg}}
    \cup {NewChannel("buffered", n, "QUEUE", NO_MSG) : n \in {None} \cup 0..MaxSize}
    \cup {NewChannel("buffered", None, "STACK", NO_MSG)}

Idle == [pc |-> "idle", chan |-> 0, msg |-> NO_MSG, fut |-> "none"]

\* The step just taken. chan is the channel operated on (for a select, the
\* channel of the pair returned, 0 for None), pairs the arguments of a select
\* and sel the pair it returned.
\* via tells how the step came about: "call" (the operation was called),
\* "wakeup" / "abort" (a parked task resumed after set_result /
\* set_exception), "cancel"; flag is the keep_order, no_wait or has-default
\* argument of a select; operation is the ChannelOperation carried by the
\* exception raised, "none" when it carries none; skipped counts the
\* cancelled waiters that the step's wakeup_next/wakeup_all/abort took out
\* of the wait groups without completing them.
Ev(op, t, c, out, msg, via) ==
    [op |-> op, task |-> t, chan |-> c, out |-> out, msg |-> msg, via |-> via,
     pairs |-> <<>>, sel |-> <<>>, flag |-> FALSE, operation |-> "none",
     skipped |-> 0]

\* The step ev ran code with effect e on channel object s.
Skipping(ev, s, e) ==
    [ev EXCEPT !.skipped =
        (Len(s.senders) + Len(s.receivers))
        - (Len(e.ch.senders) + Len(e.ch.receivers))
        - Cardinality(e.res \cup e.exc)]

\* raise ChannelNotReady(op): errors.ChannelNotReady keeps op as .operation
ChannelNotReady(ev, op) ==
    [ev EXCEPT !.out = "ChannelNotReady", !.operation = op]

EvSel(op, pairs, flag, sel, out, msg) ==
    [op |-> op, task |-> Main, chan |-> IF sel = <<>> THEN 0 ELSE sel[1],
     out |-> out, msg |-> msg, via |-> "call",
     pairs |-> pairs, sel |-> sel, flag |-> flag, operation |-> "none",
     skipped |-> 0]

InitRest(ops) ==
    /\ task = [t \in Tasks |-> Idle]
    /\ nextMsg = 1
    /\ budget = ops
    /\ event = Ev("init", Main, 0, "ok", NO_MSG, "call")
    /\ sent = [c \in DOMAIN chans |-> <<>>]
    /\ received = [c \in DOMAIN chans |-> <<>>]

Init ==
    /\ chans \in [{1} -> Constructed]
    /\ InitRest(MaxOps)

\* ------------------------------------------------------------------ tasks
\* send and receive suspend, so each call of them is a task of its own; the
\* operations that never suspend (send_nowait, receive_nowait, close, reset
\* and, in this code, the selects) run to their end wherever they are called
\* from, and are called by Main.
\* The futures completed by a step reach the tasks that await them.
Deliver(tk, e) ==
    [u \in Tasks |->
        IF u \in e.res THEN [tk[u] EXCEPT !.fut = "result"]
        ELSE IF u \in e.exc THEN [tk[u] EXCEPT !.fut = "exception"]
        ELSE tk[u]]

\* SendChannel.send from its loop test on: run by the call and by each
\* resumption after a wakeup.
SendLoop(t, c, m, via) ==
    LET s == chans[c]
        r == Closable_ready_to_send(s)
    IN CASE r = "ChannelClosed" ->
                /\ chans' = chans
                /\ task' = [task EXCEPT ![t] = Idle]
                /\ event' = Ev("send", t, c, "ChannelClosed", m, via)
                /\ sent' = sent
         [] r = "True" ->
                LET e == Channel_send(s, m)
                IN /\ chans' = [chans EXCEPT ![c] = e.ch]
                   /\ task' = Deliver([task EXCEPT ![t] = Idle], e)
                   /\ event' = Skipping(Ev("send", t, c, e.out, m, via), s, e)
                   /\ sent' = IF e.out = "ok"
                              THEN [sent EXCEPT ![c] = Append(@, m)] ELSE sent
         [] r = "False" ->
                /\ chans' = [chans EXCEPT ![c].senders = WaitGroup_wait(@, t)]
                /\ task' = [task EXCEPT ![t] =
                              [pc |-> "send", chan |-> c, msg |-> m, fut |-> "pending"]]
                /\ event' = Ev("send", t, c, "parked", m, via)
                /\ sent' = sent

\* ReceiveChannel.receive from its loop test on.
ReceiveLoop(t, c, via) ==
    LET s == chans[c]
        r == Closable_ready_to_receive(s)
    IN CASE r = "ChannelClosed" ->
                /\ chans' = chans
                /\ task' = [task EXCEPT ![t] = Idle]
                /\ event' = Ev("receive", t, c, "ChannelClosed", NO_MSG, via)
                /\ received' = received
         [] r = "True" ->
                LET e == Channel_receive(s)
                IN /\ chans' = [chans EXCEPT ![c] = e.ch]
                   /\ task' = Deliver([task EXCEPT ![t] = Idle], e)
                   /\ event' = Skipping(Ev("receive", t, c, e.out, e.msg, via), s, e)
                   /\ received' = IF e.out = "msg"
                                  THEN [received EXCEPT ![c] = Append(@, e.msg)]
                                  ELSE received
         [] r = "False" ->
                /\ chans' = [chans EXCEPT ![c].receivers = WaitGroup_wait(@, t)]
                /\ task' = [task EXCEPT ![t] =
                              [pc |-> "receive", chan |-> c, msg |-> NO_MSG,
                               fut |-> "pending"]]
                /\ event' = Ev("receive", t, c, "parked", NO_MSG, via)
                /\ received' = received

CanCall(t) == task[t].pc = "idle" /\ budget > 0

\* await chan.send(m)
Send(t, c) ==
    /\ CanCall(t)
    /\ nextMsg <= MaxMsg
    /\ SendLoop(t, c, nextMsg, "call")
    /\ nextMsg' = nextMsg + 1
    /\ budget' = budget - 1
    /\ UNCHANGED received

\* await chan.receive()
Receive(t, c) ==
    /\ CanCall(t)
    /\ ReceiveLoop(t, c, "call")
    /\ budget' = budget - 1
    /\ UNCHANGED <<nextMsg, sent>>

\* The event loop resumes a task whose waiter was completed.
ResumeSend(t) ==
    /\ task[t].pc = "send"
    /\ task[t].fut \in {"result", "exception"}
    /\ IF task[t].fut = "exception"
       THEN /\ task' = [task EXCEPT ![t] = Idle]
            /\ event' = Ev("send", t, task[t].chan, "ChannelClosed", task[t].msg, "abort")
            /\ UNCHANGED <<chans, sent>>
       ELSE SendLoop(t, task[t].chan, task[t].msg, "wakeup")
    /\ UNCHANGED <<nextMsg, budget, received>>

ResumeReceive(t) ==
    /\ task[t].pc = "receive"
    /\ task[t].fut \in {"result", "exception"}
    /\ IF task[t].fut = "exception"
       THEN /\ task' = [task EXCEPT ![t] = Idle]
            /\ event' = Ev("receive", t, task[t].chan, "ChannelClosed", NO_MSG, "abort")
            /\ UNCHANGED <<chans, received>>
       ELSE ReceiveLoop(t, task[t].chan, "wakeup")
    /\ UNCHANGED <<nextMsg, budget, sent>>

\* chan.close()
Close(c) ==
    /\ budget > 0
    /\ LET e == Channel_close(chans[c])
       IN /\ chans' = [chans EXCEPT ![c] = e.ch]
          /\ task' = Deliver(task, e)
          /\ event' = Skipping(Ev("close", Main, c, e.out, NO_MSG, "call"), chans[c], e)
    /\ budget' = budget - 1
    /\ UNCHANGED <<nextMsg, sent, received>>

\* chan.send_nowait(m)
SendNowait(c) ==
    /\ budget > 0
    /\ nextMsg <= MaxMsg
    /\ LET s == chans[c]
           r == Closable_ready_to_send(s)
           m == nextMsg
       IN CASE r = "ChannelClosed" ->
                   /\ event' = Ev("send_nowait", Main, c, "ChannelClosed", m, "call")
                   /\ UNCHANGED <<chans, task, sent>>
            [] r = "False" ->
                   /\ event' = ChannelNotReady(Ev("send_nowait", Main, c, "raise", m, "call"),
                                                "SEND")
                   /\ UNCHANGED <<chans, task, sent>>
            [] r = "True" ->
                   LET e == Channel_send(s, m)
                   IN /\ chans' = [chans EXCEPT ![c] = e.ch]
                      /\ task' = Deliver(task, e)
                      /\ event' = Skipping(Ev("send_nowait", Main, c, e.out, m, "call"), s, e)
                      /\ sent' = IF e.out = "ok"
                                 THEN [sent EXCEPT ![c] = Append(@, m)] ELSE sent
    /\ nextMsg' = nextMsg + 1
    /\ budget' = budget - 1
    /\ UNCHANGED received

\* chan.receive_nowait()
ReceiveNowait(c) ==
    /\ budget > 0
    /\ LET s == chans[c]
           r == Closable_ready_to_receive(s)
       IN CASE r = "ChannelClosed" ->
                   /\ event' = Ev("receive_nowait", Main, c, "ChannelClosed", NO_MSG, "call")
                   /\ UNCHANGED <<chans, task, received>>
            [] r = "False" ->
                   /\ event' = ChannelNotReady(
                                    Ev("receive_nowait", Main, c, "raise", NO_MSG, "call"),
                                    "RECV")
                   /\ UNCHANGED <<chans, task, received>>
            [] r = "True" ->
                   LET e == Channel_receive(s)
                   IN /\ chans' = [chans EXCEPT ![c] = e.ch]
                      /\ task' = Deliver(task, e)
                      /\ event' = Skipping(Ev("receive_nowait", Main, c, e.out, e.msg, "call"),
                                           s, e)
                      /\ received' = IF e.out = "msg"
                                     THEN [received EXCEPT ![c] = Append(@, e.msg)]
                                     ELSE received
    /\ budget' = budget - 1
    /\ UNCHANGED <<nextMsg, sent>>

\* chan.reset(), a method of DefaultChannel only
Reset(c) ==
    /\ budget > 0
    /\ chans[c].kind = "default"
    /\ chans' = [chans EXCEPT ![c] = Default_reset(@)]
    /\ event' = Ev("reset", Main, c, "ok", NO_MSG, "call")
    /\ budget' = budget - 1
    /\ UNCHANGED <<task, nextMsg, sent, received>>

\* The host scheduler cancels a task suspended in send or receive
\* (Task.cancel): a pending waiter is cancelled where it stands in the queue;
\* a waiter already completed cannot be cancelled and the task is thrown
\* CancelledError when it resumes. Either way send/receive are left by the
\* exception, with no call of _no_send/_no_receive.
Cancel(t) ==
    /\ task[t].pc \in {"send", "receive"}
    /\ budget > 0
    /\ LET c == task[t].chan
       IN /\ chans' =
                IF task[t].fut # "pending" THEN chans
                ELSE IF task[t].pc = "send"
                THEN [chans EXCEPT ![c].senders = CancelWaiter(@, t)]
                ELSE [chans EXCEPT ![c].receivers = CancelWaiter(@, t)]
          /\ event' = Ev(task[t].pc, t, c, "CancelledError", task[t].msg, "cancel")
    /\ task' = [task EXCEPT ![t] = Idle]
    /\ budget' = budget - 1
    /\ UNCHANGED <<nextMsg, sent, received>>

\* ------------------------------------------------------------------ select
\* operations.py: SEND(chan) and RECV(chan) build the pair (chan, op).
SEND(c) == <<c, "SEND">>
RECV(c) == <<c, "RECV">>

\* operations.py CHANNEL_READY[op](chan): the lambda returns the attribute
\* chan._ready_to_send / chan._ready_to_receive, a bound method; it does not
\* call it.
CHANNEL_READY(pair) ==
    [type |-> "method", self |-> pair[1],
     name |-> IF pair[2] = "SEND" THEN "_ready_to_send" ELSE "_ready_to_receive"]

\* Python's truth test of `if x:`: a bool is its value, a method object is true.
Truthy(x) == IF x.type = "bool" THEN x.val ELSE TRUE

\* random.shuffle: any order of the list
Shuffles(list) ==
    LET n == Len(list)
        perms == {f \in [1..n -> 1..n] : \A i, j \in 1..n : f[i] = f[j] => i = j}
    IN {[i \in 1..n |-> list[f[i]]] : f \in perms}

\* select_nowait with keep_order=True: the first pair of the list whose
\* CHANNEL_READY value is true, <<>> for (None, None).
First_ready(list) ==
    LET hits == {i \in DOMAIN list : Truthy(CHANNEL_READY(list[i]))}
    IN IF hits = {} THEN <<>>
       ELSE list[CHOOSE i \in hits : \A j \in hits : i <= j]

\* select from `selected = select_nowait(...)` on, for the shuffled list:
\* what it returns or raises. With nothing selected and no_wait false it
\* starts one _wrap_wait task per pair and waits; each such task awaits
\* CHANNEL_WAIT[op](chan), a bound method and no awaitable, and fails with
\* TypeError, which task.result() raises out of select. With no pair at all
\* the loop is skipped and ChannelClosed raised.
Select_outcome(list, no_wait) ==
    LET selected == First_ready(list)
    IN IF selected # <<>> THEN [out |-> "pair", sel |-> selected]
       ELSE IF no_wait THEN [out |-> "none", sel |-> <<>>]
       ELSE IF list = <<>> THEN [out |-> "ChannelClosed", sel |-> <<>>]
       ELSE [out |-> "TypeError", sel |-> <<>>]

\* The lists of pairs given to the selects: each channel at most once.
RECURSIVE PairLists(_)
PairLists(cs) ==
    IF cs = {} THEN {<<>>}
    ELSE LET c == CHOOSE x \in cs : \A y \in cs : x >= y
             rest == PairLists(cs \ {c})
         IN rest \cup {Append(l, SEND(c)) : l \in rest}
                 \cup {Append(l, RECV(c)) : l \in rest}

RecvLists(cs) ==
    {l \in PairLists(cs) : \A i \in DOMAIN l : l[i][2] = "RECV"}

\* select_nowait(*pairs, keep_order=keep_order)
SelectNowait(pairs, keep_order) ==
    /\ budget > 0
    /\ \E list \in (IF keep_order THEN {pairs} ELSE Shuffles(pairs)) :
          LET sel == First_ready(list)
          IN event' = EvSel("select_nowait", pairs, keep_order, sel,
                            IF sel = <<>> THEN "none" ELSE "pair", NO_MSG)
    /\ budget' = budget - 1
    /\ UNCHANGED <<chans, task, nextMsg, sent, received>>

\* await select(*pairs, no_wait=no_wait)
Select(pairs, no_wait) ==
    /\ budget > 0
    /\ \E list \in Shuffles(pairs) :
          LET r == Select_outcome(list, no_wait)
          IN event' = EvSel("select", pairs, no_wait, r.sel, r.out, NO_MSG)
    /\ budget' = budget - 1
    /\ UNCHANGED <<chans, task, nextMsg, sent, received>>

\* await select_get(*channels) / select_get(*channels, default=d)
SelectGet(pairs, has_default) ==
    /\ budget > 0
    /\ \E list \in Shuffles(pairs) :
          LET r == Select_outcome(list, has_default)
          IN IF r.out = "pair"
             THEN LET c == r.sel[1]
                      e == Channel_receive(chans[c])
                  IN /\ chans' = [chans EXCEPT ![c] = e.ch]
                     /\ task' = Deliver(task, e)
                     /\ event' = Skipping(EvSel("select_get", pairs, has_default,
                                                  r.sel, e.out, e.msg), chans[c], e)
                     /\ received' = IF e.out = "msg"
                                    THEN [received EXCEPT ![c] = Append(@, e.msg)]
                                    ELSE received
             ELSE /\ event' = EvSel("select_get", pairs, has_default, <<>>,
                                    IF r.out = "none" THEN "default" ELSE r.out,
                                    NO_MSG)
                  /\ UNCHANGED <<chans, task, received>>
    /\ budget' = budget - 1
    /\ UNCHANGED <<nextMsg, sent>>

Next ==
    \/ \E t \in Tasks, c \in DOMAIN chans : Send(t, c)
    \/ \E t \in Tasks, c \in DOMAIN chans : Receive(t, c)
    \/ \E t \in Tasks : ResumeSend(t)
    \/ \E t \in Tasks : ResumeReceive(t)
    \/ \E c \in DOMAIN chans : SendNowait(c)
    \/ \E c \in DOMAIN chans : ReceiveNowait(c)
    \/ \E c \in DOMAIN chans : Close(c)
    \/ \E c \in DOMAIN chans : Reset(c)
    \/ \E l \in RecvLists(DOMAIN chans), d \in BOOLEAN : SelectGet(l, d)
    \/ \E t \in Tasks : Cancel(t)

Spec == Init /\ [][Next]_vars

\* The same tasks when the host scheduler cancels none of them, and the event
\* loop runs every task whose waiter was completed (asyncio schedules the
\* task's wakeup with call_soon as soon as its future is done).
NextNoCancel ==
    \/ \E t \in Tasks, c \in DOMAIN chans : Send(t, c)
    \/ \E t \in Tasks, c \in DOMAIN chans : Receive(t, c)
    \/ \E t \in Tasks : ResumeSend(t)
    \/ \E t \in Tasks : ResumeReceive(t)
    \/ \E c \in DOMAIN chans : SendNowait(c)
    \/ \E c \in DOMAIN chans : ReceiveNowait(c)
    \/ \E c \in DOMAIN chans : Close(c)
    \/ \E c \in DOMAIN chans : Reset(c)

FairSpec ==
    /\ Init
    /\ [][NextNoCancel]_vars
    /\ \A t \in Tasks : WF_vars(ResumeSend(t)) /\ WF_vars(ResumeReceive(t))

\* The select scenarios: several channels, operated on without suspending by
\* one task, and the three selects over them.
SelChans == 1..NSelChans

InitSelect ==
    /\ chans = [c \in SelChans |->
                  IF c = 1 THEN NewChannel("unicast", None, "QUEUE", NO_MSG)
                  ELSE NewChannel("buffered", None, "QUEUE", NO_MSG)]
    /\ InitRest(MaxSelOps)

NextSelect ==
    \/ \E c \in DOMAIN chans : SendNowait(c)
    \/ \E c \in DOMAIN chans : ReceiveNowait(c)
    \/ \E c \in DOMAIN chans : Close(c)
    \/ \E l \in PairLists(DOMAIN chans), k \in BOOLEAN : SelectNowait(l, k)
    \/ \E l \in PairLists(DOMAIN chans), w \in BOOLEAN : Select(l, w)
    \/ \E l \in RecvLists(DOMAIN chans), d \in BOOLEAN : SelectGet(l, d)

SelectSpec == InitSelect /\ [][NextSelect]_vars

\* --------------------------------------------------------- async iteration
\* ClosableChannel.__anext__: `except ChannelClosed: raise StopIteration()`;
\* any other exception of receive passes through.
Anext_except(exc) == IF exc = "ChannelClosed" THEN "StopIteration" ELSE exc

\* __anext__ is an `async def`: a StopIteration raised inside a coroutine
\* leaves it as RuntimeError("coroutine raised StopIteration").
Coroutine_raise(exc) == IF exc = "StopIteration" THEN "RuntimeError" ELSE exc

\* What `async for msg in chan` gets from one __anext__ whose receive ended
\* with out: the message, or the exception leaving the coroutine. Only
\* StopAsyncIteration would end the loop normally.
Anext_outcome(out) ==
    IF out = "msg" THEN "msg" ELSE Coroutine_raise(Anext_except(out))

\* __anext__ from the loop test of the receive() it awaits.
AnextLoop(t, c, via) ==
    LET s == chans[c]
        r == Closable_ready_to_receive(s)
    IN CASE r = "ChannelClosed" ->
                /\ chans' = chans
                /\ task' = [task EXCEPT ![t] = Idle]
                /\ event' = Ev("anext", t, c, Anext_outcome("ChannelClosed"),
                               NO_MSG, via)
                /\ received' = received
         [] r = "True" ->
                LET e == Channel_receive(s)
                IN /\ chans' = [chans EXCEPT ![c] = e.ch]
                   /\ task' = Deliver([task EXCEPT ![t] = Idle], e)
                   /\ event' = Skipping(Ev("anext", t, c, Anext_outcome(e.out), e.msg, via),
                                        s, e)
                   /\ received' = IF e.out = "msg"
                                  THEN [received EXCEPT ![c] = Append(@, e.msg)]
                                  ELSE received
         [] r = "False" ->
                /\ chans' = [chans EXCEPT ![c].receivers = WaitGroup_wait(@, t)]
                /\ task' = [task EXCEPT ![t] =
                              [pc |-> "anext", chan |-> c, msg |-> NO_MSG,
                               fut |-> "pending"]]
                /\ event' = Ev("anext", t, c, "parked", NO_MSG, via)
                /\ received' = received

\* One turn of `async for msg in chan`: await chan.__anext__()
Anext(t, c) ==
    /\ CanCall(t)
    /\ AnextLoop(t, c, "call")
    /\ budget' = budget - 1
    /\ UNCHANGED <<nextMsg, sent>>

\* The event loop resumes a task suspended in the receive of __anext__.
ResumeAnext(t) ==
    /\ task[t].pc = "anext"
    /\ task[t].fut \in {"result", "exception"}
    /\ IF task[t].fut = "exception"
       THEN /\ task' = [task EXCEPT ![t] = Idle]
            /\ event' = Ev("anext", t, task[t].chan,
                           Anext_outcome("ChannelClosed"), NO_MSG, "abort")
            /\ UNCHANGED <<chans, received>>
       ELSE AnextLoop(t, task[t].chan, "wakeup")
    /\ UNCHANGED <<nextMsg, budget, sent>>

\* Consumers iterating over a channel that one producer feeds without
\* suspending and then closes.
NextIter ==
    \/ \E t \in Tasks, c \in DOMAIN chans : Anext(t, c)
    \/ \E t \in Tasks : ResumeAnext(t)
    \/ \E c \in DOMAIN chans : SendNowait(c)
    \/ \E c \in DOMAIN chans : Close(c)

IterSpec == Init /\ [][NextIter]_vars

\* ================================================================== claims
Range(seq) == {seq[i] : i \in DOMAIN seq}

IsPrefix(p, q) == Len(p) <= Len(q) /\ \A i \in DOMAIN p : p[i] = q[i]

\* The step just taken completed a receive()/receive_nowait() on channel c.
ReceiveEnded(ev, c) ==
    /\ ev.op \in {"receive", "receive_nowait"}
    /\ ev.chan = c
    /\ ev.out \notin {"parked", "CancelledError"}

\* The step just taken completed a send()/send_nowait() on channel c.
SendEnded(ev, c) ==
    /\ ev.op \in {"send", "send_nowait"}
    /\ ev.chan = c
    /\ ev.out \notin {"parked", "CancelledError"}

\* Task t is suspended on a waiter nobody has completed or cancelled.
Parked(t, op, c) ==
    task[t].pc = op /\ task[t].chan = c /\ task[t].fut = "pending"

\* No task is runnable: every task is idle or suspended on a pending waiter.
Quiescent == \A t \in Tasks : task[t].fut \in {"none", "pending"}

\* The operation of a pair is ready in channel state cs.
PairReady(cs, pair) ==
    IF pair[2] = "SEND"
    THEN Closable_ready_to_send(cs[pair[1]]) = "True"
    ELSE Closable_ready_to_receive(cs[pair[1]]) = "True"

\* C1: on a closed buffered channel a receive returns the next stored message
\* as long as the buffer holds one, and raises Closed only when the buffer is
\* empty: no buffered message is lost or replaced by Closed.
C1_CloseWithDrain ==
    [][\A c \in DOMAIN chans :
          (chans[c].kind = "buffered" /\ chans[c].closed /\ ReceiveEnded(event', c))
          => IF chans[c].messages # <<>>
             THEN /\ event'.out = "msg"
                  /\ event'.msg = Storage_get(chans[c].storage, chans[c].messages).elt
             ELSE event'.out = "ChannelClosed"]_vars

\* C2: on an open rendezvous unicast channel a sender and a receiver never
\* both stay parked: when nothing is left to run, no task is parked in send
\* while another is parked in receive on the same open channel.
C2_RendezvousHandOff ==
    \A c \in DOMAIN chans : \A a, b \in Tasks :
        ~ /\ chans[c].kind = "unicast"
          /\ ~chans[c].closed
          /\ Quiescent
          /\ Parked(a, "send", c)
          /\ Parked(b, "receive", c)

\* C3: once a channel is closed it stays closed, and no send or send_nowait
\* commits afterwards: each raises Closed and leaves slot and buffer as they
\* were, also when the sender was woken before the close and resumes after it.
C3_ClosedIsPermanent ==
    [][\A c \in DOMAIN chans :
          chans[c].closed
          => /\ chans'[c].closed
             /\ sent'[c] = sent[c]
             /\ SendEnded(event', c)
                => /\ event'.out = "ChannelClosed"
                   /\ chans'[c].message = chans[c].message
                   /\ chans'[c].messages = chans[c].messages]_vars

\* A sender woken by a receive before the close resumed after it and got Closed.
C3_Witness ==
    /\ event.op = "send"
    /\ event.via = "wakeup"
    /\ event.out = "ChannelClosed"
    /\ chans[event.chan].closed

\* C4: a sender suspended in send() on a channel that gets closed eventually
\* leaves send() with Closed, and its message is never committed to the
\* channel nor received.
C4_ParkedSendersAborted ==
    /\ \A t \in Tasks :
          (task[t].pc = "send" /\ chans[task[t].chan].closed)
          ~> (event.op = "send" /\ event.task = t /\ event.out = "ChannelClosed")
    /\ [](\A t \in Tasks :
            (task[t].pc = "send" /\ chans[task[t].chan].closed)
            => task[t].msg \notin
                  Range(sent[task[t].chan]) \cup Range(received[task[t].chan]))
    /\ []((event.op = "send" /\ event.out = "ChannelClosed")
            => event.msg \notin
                  Range(sent[event.chan]) \cup Range(received[event.chan]))

\* Two senders were parked when the channel was closed, and one of them has
\* resumed with the exception set by abort.
C4_Witness ==
    /\ event.op = "send"
    /\ event.via = "abort"
    /\ event.out = "ChannelClosed"
    /\ \E t \in Tasks : task[t].pc = "send" /\ task[t].fut = "exception"

\* C5: a pair returned by select(*pairs) with no_wait=False is ready at the
\* moment of return.
C5_SelectReturnsReady ==
    (event.op = "select" /\ ~event.flag /\ event.out = "pair")
    => PairReady(chans, event.sel)

\* C6: when select/select_get is given closed candidates together with a
\* candidate that is live and ready, the call does not raise Closed and
\* returns a ready candidate, never a closed one with nothing to deliver;
\* select_get returns that channel together with its message.
C6_ClosedAbsorbed ==
    [][(/\ event'.op \in {"select", "select_get"}
        /\ budget' # budget
        /\ \E i \in DOMAIN event'.pairs : PairReady(chans, event'.pairs[i])
        /\ \E i \in DOMAIN event'.pairs :
              /\ chans[event'.pairs[i][1]].closed
              /\ ~PairReady(chans, event'.pairs[i]))
       => /\ event'.out # "ChannelClosed"
          /\ event'.sel # <<>>
          /\ PairReady(chans, event'.sel)
          /\ event'.op = "select_get" => event'.out = "msg"]_vars

\* C7: when no candidate is ready, select_nowait and select(no_wait=True)
\* return (None, None) and select_get(default=d) returns (None, d), and no
\* channel changes.
C7_NothingReadySentinel ==
    [][(/\ \/ event'.op = "select_nowait"
           \/ event'.op \in {"select", "select_get"} /\ event'.flag
        /\ budget' # budget
        /\ \A i \in DOMAIN event'.pairs : ~PairReady(chans, event'.pairs[i]))
       => /\ event'.out = (IF event'.op = "select_get" THEN "default" ELSE "none")
          /\ event'.sel = <<>>
          /\ chans' = chans
          /\ task' = task]_vars

\* C8: a receive on a DefaultChannel returns the latched value and leaves it
\* in the slot.
C8_DefaultReceiveKeepsSlot ==
    [][\A c \in DOMAIN chans :
          (chans[c].kind = "default" /\ ReceiveEnded(event', c) /\ event'.out = "msg")
          => /\ event'.msg = chans[c].message
             /\ chans'[c].message = chans[c].message]_vars

\* C9: on a BufferedChannel with FIFO storage the messages returned by
\* receives, in order, are a prefix of the messages committed by sends.
C9_FifoPrefix ==
    \A c \in DOMAIN chans :
        (chans[c].kind = "buffered" /\ chans[c].storage = "QUEUE")
        => IsPrefix(received[c], sent[c])

\* Three messages were committed on a FIFO channel and two of them returned.
C9_Witness ==
    \E c \in DOMAIN chans :
        /\ chans[c].kind = "buffered" /\ chans[c].storage = "QUEUE"
        /\ Len(sent[c]) >= 3
        /\ Len(received[c]) >= 2

\* C10: close() on a channel already closed raises nothing and changes
\* nothing: closed, slot, buffer and both wait groups stay as they were.
C10_SecondCloseNoOp ==
    [][\A c \in DOMAIN chans :
          (chans[c].closed /\ event'.op = "close" /\ event'.chan = c
           /\ budget' # budget)
          => /\ event'.out = "ok"
             /\ chans'[c] = chans[c]]_vars

\* The receive awaited by the __anext__ step from the current state ends with
\* Closed: the task resumes from an abort, or the probe of the loop test or
\* the commit raises it.
AnextReceiveClosed(ev) ==
    \/ ev.via = "abort"
    \/ Closable_ready_to_receive(chans[ev.chan]) = "ChannelClosed"
    \/ /\ Closable_ready_to_receive(chans[ev.chan]) = "True"
       /\ Channel_receive(chans[ev.chan]).out = "ChannelClosed"

\* C11: a turn of the asynchronous iteration over a channel yields the result
\* of its receive, and when that receive raises Closed it ends the iteration
\* with the end-of-iteration signal: no error reaches the consumer.
C11_IterationEndsOnClosed ==
    [][(event'.op = "anext" /\ event'.out # "parked")
       => IF AnextReceiveClosed(event')
          THEN event'.out = "StopAsyncIteration"
          ELSE event'.out = "msg"]_vars

NoDup(seq) == \A i, j \in DOMAIN seq : seq[i] = seq[j] => i = j

\* C12: on a rendezvous unicast or broadcast channel each committed message
\* is returned by at most one receive; a send committed on an open broadcast
\* channel wakes every receiver parked on it; and a receiver resumed by such
\* a wakeup returns the message if the slot still holds it, emptying the
\* slot, and otherwise finds the channel not ready and parks again.
C12_BroadcastOneWinner ==
    /\ [](\A c \in DOMAIN chans :
            chans[c].kind \in {"unicast", "broadcast"}
            => /\ NoDup(received[c])
               /\ Range(received[c]) \subseteq Range(sent[c]))
    /\ [][\A c \in DOMAIN chans :
            (/\ chans[c].kind = "broadcast"
             /\ SendEnded(event', c)
             /\ event'.out = "ok")
            => /\ chans'[c].receivers = <<>>
               /\ chans'[c].message = event'.msg
               /\ \A t \in Live(chans[c].receivers) : task'[t].fut = "result"]_vars
    /\ [][\A c \in DOMAIN chans :
            (/\ chans[c].kind = "broadcast"
             /\ ~chans[c].closed
             /\ event'.op = "receive" /\ event'.via = "wakeup" /\ event'.chan = c)
            => IF chans[c].message = NO_MSG
               THEN /\ event'.out = "parked"
                    /\ task'[event'.task].pc = "receive"
                    /\ task'[event'.task].fut = "pending"
                    /\ received' = received
               ELSE /\ event'.out = "msg"
                    /\ event'.msg = chans[c].message
                    /\ chans'[c].message = NO_MSG]_vars

\* Two receivers were parked on an open broadcast channel and woken by one
\* send; one of them has just resumed and returned the message, the other is
\* still to resume and will find the slot empty.
C12_Witness ==
    /\ event.op = "receive" /\ event.via = "wakeup" /\ event.out = "msg"
    /\ chans[event.chan].kind = "broadcast"
    /\ ~chans[event.chan].closed
    /\ chans[event.chan].message = NO_MSG
    /\ received[event.chan] = sent[event.chan]
    /\ \E t \in Tasks :
          /\ t # event.task
          /\ task[t].pc = "receive" /\ task[t].chan = event.chan
          /\ task[t].fut = "result"

\* The task of the earliest-enqueued waiter that is not cancelled, if any.
EarliestLive(waiters) ==
    LET live == {i \in DOMAIN waiters : ~waiters[i].done}
    IN IF live = {} THEN {}
       ELSE {waiters[CHOOSE i \in live : \A j \in live : i <= j].task}

\* An open BufferedChannel with a positive maxsize.
OpenBounded(s) == s.kind = "buffered" /\ s.maxsize >= 1 /\ ~s.closed

ReadyForSend(s) ==
    CASE s.kind \in {"unicast", "broadcast"} ->
            s.message = NO_MSG /\ Len(s.receivers) > 0
      [] s.kind = "default" -> TRUE
      [] s.kind = "buffered" ->
            IF s.maxsize = 0 THEN s.messages = <<>> /\ Len(s.receivers) > 0
            ELSE s.maxsize = None \/ Len(s.messages) < s.maxsize

ReadyForReceive(s) ==
    IF s.kind = "buffered" THEN s.messages # <<>> ELSE s.message # NO_MSG

\* C14: send_nowait and receive_nowait never suspend; on an open channel not
\* ready for the operation they raise NotReady carrying SEND resp. RECV and
\* change neither slot, buffer nor wait groups; on an open channel that is
\* ready they commit: the message is placed, resp. the next message returned.
C14_NowaitNotReady ==
    [][\A c \in DOMAIN chans :
          /\ (event'.op = "send_nowait" /\ event'.chan = c)
             => /\ event'.out # "parked"
                /\ \A t \in Tasks : task'[t].pc = task[t].pc
                /\ (~chans[c].closed /\ ~ReadyForSend(chans[c]))
                   => /\ event'.out = "ChannelNotReady"
                      /\ event'.operation = "SEND"
                      /\ chans' = chans /\ task' = task /\ sent' = sent
                /\ (~chans[c].closed /\ ReadyForSend(chans[c]))
                   => /\ event'.out = "ok"
                      /\ sent'[c] = Append(sent[c], event'.msg)
                      /\ IF chans[c].kind = "buffered"
                         THEN chans'[c].messages = Append(chans[c].messages, event'.msg)
                         ELSE chans'[c].message = event'.msg
          /\ (event'.op = "receive_nowait" /\ event'.chan = c)
             => /\ event'.out # "parked"
                /\ \A t \in Tasks : task'[t].pc = task[t].pc
                /\ (~chans[c].closed /\ ~ReadyForReceive(chans[c]))
                   => /\ event'.out = "ChannelNotReady"
                      /\ event'.operation = "RECV"
                      /\ chans' = chans /\ task' = task /\ received' = received
                /\ (~chans[c].closed /\ ReadyForReceive(chans[c]))
                   => /\ event'.out = "msg"
                      /\ received'[c] = Append(received[c], event'.msg)
                      /\ event'.msg =
                            IF chans[c].kind = "buffered"
                            THEN Storage_get(chans[c].storage, chans[c].messages).elt
                            ELSE chans[c].message]_vars

\* send_nowait found an open bounded buffer full, with a sender parked on it,
\* and raised NotReady(SEND).
C14_Witness ==
    /\ event.op = "send_nowait"
    /\ event.out = "ChannelNotReady" /\ event.operation = "SEND"
    /\ OpenBounded(chans[event.chan])
    /\ Len(chans[event.chan].messages) = chans[event.chan].maxsize
    /\ \E t \in Tasks : Parked(t, "send", event.chan)

\* C15: the receive that takes the last deliverable message of a closed
\* channel aborts every receiver still parked on it, leaving the receivers
\* wait group empty; and a receiver suspended on a closed channel eventually
\* leaves receive, with a message or with Closed.
C15_LastReceiveAborts ==
    /\ [][\A c \in DOMAIN chans :
            (/\ chans[c].closed
             /\ event'.op \in {"receive", "receive_nowait"} /\ event'.chan = c
             /\ ReadyForReceive(chans[c])
             /\ ~ReadyForReceive(chans'[c]))
            => /\ chans'[c].receivers = <<>>
               /\ \A t \in Live(chans[c].receivers) : task'[t].fut = "exception"]_vars
    /\ \A t \in Tasks :
          (task[t].pc = "receive" /\ chans[task[t].chan].closed)
          ~> (/\ event.op = "receive" /\ event.task = t
              /\ event.out \in {"msg", "ChannelClosed"})

\* C16: close() on a channel holding no deliverable message aborts every
\* receiver parked on it with Closed and leaves the receivers wait group
\* empty; close() on a channel holding a deliverable message leaves every
\* parked receiver and the receivers wait group as they were.
C16_CloseAbortsReceivers ==
    [][\A c \in DOMAIN chans :
          (event'.op = "close" /\ event'.chan = c)
          => IF ~ReadyForReceive(chans[c])
             THEN /\ chans'[c].receivers = <<>>
                  /\ \A t \in Live(chans[c].receivers) : task'[t].fut = "exception"
             ELSE /\ chans'[c].receivers = chans[c].receivers
                  /\ \A t \in Tasks : task[t].pc = "receive" => task'[t] = task[t]]_vars

\* What is left of a wait group after a wake-one: the waiters enqueued after
\* the earliest live one, nothing when no waiter is live.
AfterEarliestLive(waiters) ==
    LET live == {i \in DOMAIN waiters : ~waiters[i].done}
    IN IF live = {} THEN <<>>
       ELSE SubSeq(waiters, (CHOOSE i \in live : \A j \in live : i <= j) + 1,
                   Len(waiters))

\* The two wait groups of every channel.
WaitGroups == UNION {{chans[c].senders, chans[c].receivers} : c \in DOMAIN chans}

\* C17: wakeup_next completes at most one waiter, the earliest-enqueued one
\* that is not cancelled, and removes it and every cancelled waiter ahead of
\* it; with no live waiter it completes none and leaves the group empty. So
\* a send committed on a unicast or buffered channel whose receivers group has
\* a cancelled head and a live waiter behind it wakes that live waiter.
C17_WakeupNextSkipsCancelled ==
    /\ [](\A g \in WaitGroups :
            LET r == WaitGroup_wakeup_next(g)
            IN /\ r.woken = EarliestLive(g)
               /\ Cardinality(r.woken) <= 1
               /\ r.waiters = AfterEarliestLive(g)
               /\ Live(g) = {} => r.woken = {} /\ r.waiters = <<>>)
    /\ [][\A c \in DOMAIN chans :
            (/\ chans[c].kind \in {"unicast", "buffered"}
             /\ SendEnded(event', c) /\ event'.out = "ok")
            => /\ \A t \in EarliestLive(chans[c].receivers) :
                     task[t].fut = "pending" /\ task'[t].fut = "result"
               /\ \A t \in Tasks \ (EarliestLive(chans[c].receivers) \cup {event'.task}) :
                     task'[t] = task[t]
               /\ chans'[c].receivers = AfterEarliestLive(chans[c].receivers)]_vars

\* A send was committed while the head of the receivers group was a cancelled
\* waiter with a live one behind it: the cancelled waiter was taken out and
\* the live receiver woken.
C17_Witness ==
    /\ event.op \in {"send", "send_nowait"} /\ event.out = "ok"
    /\ chans[event.chan].kind \in {"unicast", "buffered"}
    /\ event.skipped >= 1
    /\ \E t \in Tasks :
          task[t].pc = "receive" /\ task[t].chan = event.chan /\ task[t].fut = "result"

\* C18: on a BufferedChannel with maxsize = 0 and on a UnicastChannel, send
\* and send_nowait commit a message only when some receiver task is
\* suspended in receive on the channel; the queued waiter of a receiver whose
\* wait was cancelled does not count.
C18_RendezvousNeedsReceiver ==
    [][\A c \in DOMAIN chans :
          (/\ \/ chans[c].kind = "unicast"
              \/ chans[c].kind = "buffered" /\ chans[c].maxsize = 0
           /\ SendEnded(event', c)
           /\ sent'[c] # sent[c])
          => \E t \in Tasks : Parked(t, "receive", c)]_vars

\* C19: a BufferedChannel with maxsize n >= 1 never holds more than n
\* messages, whatever the interleaving of send, send_nowait, receive,
\* receive_nowait and close; a send that finds n messages buffered on the
\* open channel parks and commits nothing.
C19_BufferWithinMaxsize ==
    /\ [](\A c \in DOMAIN chans :
            (chans[c].kind = "buffered" /\ chans[c].maxsize >= 1)
            => Len(chans[c].messages) \in 0..chans[c].maxsize)
    /\ [][\A c \in DOMAIN chans :
            (/\ OpenBounded(chans[c])
             /\ Len(chans[c].messages) = chans[c].maxsize
             /\ event'.op = "send" /\ event'.chan = c
             /\ event'.via \in {"call", "wakeup"})
            => /\ event'.out = "parked"
               /\ task'[event'.task].pc = "send"
               /\ task'[event'.task].chan = c
               /\ task'[event'.task].fut = "pending"
               /\ chans'[c].senders =
                     Append(chans[c].senders, [task |-> event'.task, done |-> FALSE])
               /\ chans'[c].messages = chans[c].messages
               /\ sent' = sent]_vars

\* A send found the buffer of an open maxsize = 2 channel holding two
\* messages and parked.
C19_Witness ==
    /\ event.op = "send" /\ event.out = "parked"
    /\ OpenBounded(chans[event.chan])
    /\ chans[event.chan].maxsize = 2
    /\ Len(chans[event.chan].messages) = 2
    /\ Parked(event.task, "send", event.chan)

\* C20: a wake-one is not lost when the woken task is cancelled before it
\* resumes: once every runnable task has run, an open buffered channel is
\* not left holding a message while a live receiver is parked on it, nor
\* with room in its buffer while a live sender is parked on it.
C20_WakeupNotLost ==
    \A c \in DOMAIN chans :
        (chans[c].kind = "buffered" /\ ~chans[c].closed /\ Quiescent)
        => /\ ~(/\ ~Buffered_empty(chans[c])
                /\ \E t \in Tasks : Parked(t, "receive", c))
           /\ ~(/\ ~Buffered_full(chans[c])
                /\ \E t \in Tasks : Parked(t, "send", c))

====
